---- MODULE Spec2Model ----
(***************************************************************************)
(* A model of flow_analysis: the Flow / FlowEnsemble containers of         *)
(* flow.py, threshold_interpolate of measurements/scales.py and autocorr   *)
(* of stats/autocorrelation.py.                                            *)
(*                                                                         *)
(* Python lists are objects: FlowEnsemble.append stores the very list      *)
(* objects of the Flow it is given.  The model therefore keeps the Flow    *)
(* objects in a heap (flows) and lets an ensemble attribute hold either a  *)
(* reference to a Flow's list or, after numpy.asarray, an owned copy.      *)
(* numpy.asarray is modelled as numpy >= 1.24 behaves: a ragged list of    *)
(* lists raises ValueError.                                                *)
(***************************************************************************)
EXTENDS Integers, Sequences, FiniteSets, TLC

\* ---------------------------------------------------------------- bounds
MaxSteps == 2        \* flow steps appended to one Flow
MaxMembers == 2      \* successful FlowEnsemble.append calls

FlowIds == {1, 2}    \* the Flow objects alive
TimeVals == {0, 1}   \* flow times a reader offers to Flow.append
QueryTimes == {0, 1} \* numeric t offered to Q_history

\* FlowStep = namedtuple("FlowStep", ["t", "Ep", "Ec", "Q"])
FlowStep(t, Ep, Ec, Q) == [t |-> t, Ep |-> Ep, Ec |-> Ec, Q |-> Q]

\* the flow steps a reader hands to Flow.append for configuration f: the
\* times are those of the log, the measurements differ by configuration
FlowSteps(f) ==
    {FlowStep(t, 100 * f + 10 + t, 100 * f + 20 + t, f * (2 * t - 1)) : t \in TimeVals}

NoKeys == [k \in {} |-> 0]
\* the lattice geometries a reader's add_metadata finds in a log
Geometries == { [NT |-> 16, NX |-> 8, NY |-> 4, NZ |-> 8] }

VARIABLES
    flows,           \* heap of Flow objects: FlowIds -> Flow
    ensemble_names,  \* FlowEnsemble.ensemble_names
    trajectories,    \* FlowEnsemble.trajectories
    times,           \* FlowEnsemble.times
    Eps,             \* FlowEnsemble.Eps
    Ecs,             \* FlowEnsemble.Ecs
    Qs,              \* FlowEnsemble.Qs
    frozen,          \* FlowEnsemble._frozen
    metadata,        \* FlowEnsemble.metadata
    res,             \* outcome of the last call: value returned or exception
    warned,          \* the warnings.warn calls of the last call
    values,          \* argument of threshold_interpolate: rows of samples
    threshold,       \* argument of threshold_interpolate
    series,          \* argument of autocorr, Q history of flat_bin_Qs
    filename,        \* FlowEnsemble.filename, a path as its components
    default_rng,     \* bootstrap.DEFAULT_RNG: its seed and how far it has run
    samples          \* the samples of a bootstrap loop, or what a measurement drew

ensVars == <<ensemble_names, trajectories, times, Eps, Ecs, Qs, frozen, metadata>>
bootVars == <<filename, default_rng, samples>>
otherVars == <<warned, values, threshold, series, filename, default_rng, samples>>
vars == <<flows, ensemble_names, trajectories, times, Eps, Ecs, Qs, frozen,
          metadata, res, warned, values, threshold, series, filename,
          default_rng, samples>>

\* ------------------------------------------------------- call outcomes
Returned(op, arg, val) ==
    [op |-> op, arg |-> arg, err |-> "", msg |-> "", traj |-> 0, val |-> val]

Raised(op, arg, err, msg, traj) ==
    [op |-> op, arg |-> arg, err |-> err, msg |-> msg, traj |-> traj, val |-> <<>>]

\* ------------------------------------------------------------- objects
\* Flow.__init__
NewFlow(trajectory) ==
    [trajectory |-> trajectory, ensemble |-> "",
     Eps |-> <<>>, Ecs |-> <<>>, times |-> <<>>, Qs |-> <<>>]

\* a Python value that is None, a reference to the list attribute of Flow
\* ref, or a numpy array owning val ("scalar": asarray(None), a 0-d array)
None == [kind |-> "None", ref |-> 0, val |-> <<>>]
ListOf(f) == [kind |-> "list", ref |-> f, val |-> <<>>]
ArrayOf(v) == [kind |-> "array", ref |-> 0, val |-> v]
ScalarArray == [kind |-> "scalar", ref |-> 0, val |-> <<>>]

\* a list of rows (kind "list") or a 2-d array (kind "array")
ListRows(rows) == [kind |-> "list", rows |-> rows]
ArrayRows(rows) == [kind |-> "array", rows |-> rows]

\* the contents of the list or array h stands for; fld picks the attribute
\* of the referenced Flow
Contents(h, fld) ==
    IF h.kind = "list"
    THEN CASE fld = "times" -> flows[h.ref].times
           [] fld = "Eps" -> flows[h.ref].Eps
           [] fld = "Ecs" -> flows[h.ref].Ecs
           [] OTHER -> flows[h.ref].Qs
    ELSE h.val

\* the rows of a list of lists or of a 2-d array, by value
RowContents(attr, fld) ==
    [i \in DOMAIN attr.rows |-> Contents(attr.rows[i], fld)]

\* FlowEnsemble.__init__
\* the module-level generator as imported, one ensemble file, no loop running
Loaded ==
    /\ filename = <<"out", "run1">>
    /\ default_rng = [id |-> "DEFAULT_RNG", seed |-> 0, pos |-> 0]
    /\ samples = <<>>

Init ==
    /\ flows = [f \in FlowIds |-> NewFlow(f)]
    /\ ensemble_names = [kind |-> "list", val |-> <<>>]
    /\ trajectories = [kind |-> "list", val |-> <<>>]
    /\ times = None
    /\ Eps = ListRows(<<>>)
    /\ Ecs = ListRows(<<>>)
    /\ Qs = ListRows(<<>>)
    /\ frozen = FALSE
    /\ metadata = NoKeys
    /\ res = Returned("__init__", 0, <<>>)
    /\ Loaded
    /\ warned = <<>>
    /\ values = <<>>
    /\ threshold = [n |-> 0, d |-> 1]
    /\ series = <<>>

\* is the list object fld of Flow f stored in the ensemble?
Referenced(f) ==
    \/ times.kind = "list" /\ times.ref = f
    \/ \E i \in DOMAIN Eps.rows : Eps.rows[i].kind = "list" /\ Eps.rows[i].ref = f
    \/ \E i \in DOMAIN Ecs.rows : Ecs.rows[i].kind = "list" /\ Ecs.rows[i].ref = f
    \/ \E i \in DOMAIN Qs.rows : Qs.rows[i].kind = "list" /\ Qs.rows[i].ref = f

\* ------------------------------------------------------------ Flow.append
FlowGoesBackwardsOrStalls(flow, flowstep) ==
    flow.times # <<>> /\ flowstep.t <= flow.times[Len(flow.times)]
FlowGoesBackwards(flow, flowstep) ==
    flow.times # <<>> /\ flowstep.t < flow.times[Len(flow.times)]

FlowAppend(f, flowstep) ==
    /\ Len(flows[f].times) < MaxSteps
    /\ IF FlowGoesBackwards(flows[f], flowstep)
       THEN /\ res' = Raised("Flow.append", f, "ValueError", "Flow goes backwards.", 0)
            /\ UNCHANGED flows
       ELSE /\ flows' = [flows EXCEPT
                  ![f].times = Append(@, flowstep.t),
                  ![f].Eps = Append(@, flowstep.Ep),
                  ![f].Ecs = Append(@, flowstep.Ec),
                  ![f].Qs = Append(@, flowstep.Q)]
            /\ res' = Returned("Flow.append", f, <<>>)
    /\ UNCHANGED <<ensVars, otherVars>>

\* the caller shortens one of the public list attributes of a Flow it still
\* holds (del flow.Qs[-1]): Flow.append alone keeps the four lists in step,
\* and this is how a Flow of inconsistent length comes to exist
FlowTruncate(f, fld) ==
    /\ ~Referenced(f)
    /\ flows[f].times # <<>>
    /\ Len(flows[f].Eps) = Len(flows[f].times)
    /\ Len(flows[f].Ecs) = Len(flows[f].times)
    /\ Len(flows[f].Qs) = Len(flows[f].times)
    /\ flows' = [flows EXCEPT ![f] =
         CASE fld = "Eps" -> [@ EXCEPT !.Eps = SubSeq(@, 1, Len(@) - 1)]
           [] fld = "Ecs" -> [@ EXCEPT !.Ecs = SubSeq(@, 1, Len(@) - 1)]
           [] OTHER -> [@ EXCEPT !.Qs = SubSeq(@, 1, Len(@) - 1)]]
    /\ res' = Returned("del", f, <<>>)
    /\ UNCHANGED <<ensVars, otherVars>>

\* ---------------------------------------------------- FlowEnsemble.append
\* flow.times != self.times, on two lists: by value
TimesDifferOnLength(flow_times, self_times) == Len(flow_times) # Len(self_times)
TimesDiffer(flow_times, self_times) == flow_times # self_times

\* len(flow.times) == len(flow.Eps) == len(flow.Ecs) == len(flow.Qs)
ConsistentLengthNoQs(flow) ==
    /\ Len(flow.times) = Len(flow.Eps)
    /\ Len(flow.Eps) = Len(flow.Ecs)
ConsistentLength(flow) ==
    /\ Len(flow.times) = Len(flow.Eps)
    /\ Len(flow.Eps) = Len(flow.Ecs)
    /\ Len(flow.Ecs) = Len(flow.Qs)

\* if self._frozen
IsFrozenNever == FALSE
IsFrozen == frozen

EnsAppend(f) ==
    LET flow == flows[f] IN
    /\ UNCHANGED otherVars
    /\ IF IsFrozen
       THEN /\ res' = Raised("append", f, "TypeError",
                             "Can't append to a frozen ensemble.", 0)
            /\ UNCHANGED <<flows, ensVars>>
       ELSE IF times.kind \in {"array", "scalar"}
       THEN \* freeze() raised half way: self.times and self.ensemble_names
            \* are numpy arrays.  list != ndarray raises ValueError (shapes, or
            \* the truth value of an array) or yields False, and then
            \* self.ensemble_names.append raises AttributeError, unless the
            \* length check raised ValueError before it.
            /\ \E e \in {"ValueError", "AttributeError"} :
                  res' = Raised("append", f, e, "numpy", 0)
            /\ UNCHANGED <<flows, ensVars>>
       ELSE IF times # None /\ TimesDiffer(flow.times, Contents(times, "times"))
       THEN /\ res' = Raised("append", f, "ValueError",
                             "Times must match for all flows.", flow.trajectory)
            /\ UNCHANGED <<flows, ensVars>>
       ELSE /\ times' = IF times = None THEN ListOf(f) ELSE times
            /\ IF ~ConsistentLength(flow)
               THEN /\ res' = Raised("append", f, "ValueError",
                                     "not a consistent length.", flow.trajectory)
                    /\ UNCHANGED <<flows, ensemble_names, trajectories, Eps, Ecs,
                                   Qs, frozen, metadata>>
               ELSE /\ Len(trajectories.val) < MaxMembers
                    /\ ensemble_names' =
                         [ensemble_names EXCEPT !.val = Append(@, flow.ensemble)]
                    /\ trajectories' =
                         [trajectories EXCEPT !.val = Append(@, flow.trajectory)]
                    /\ Eps' = [Eps EXCEPT !.rows = Append(@, ListOf(f))]
                    /\ Ecs' = [Ecs EXCEPT !.rows = Append(@, ListOf(f))]
                    /\ Qs' = [Qs EXCEPT !.rows = Append(@, ListOf(f))]
                    /\ res' = Returned("append", f, <<>>)
                    /\ UNCHANGED <<flows, frozen, metadata>>

\* ---------------------------------------------------- FlowEnsemble.freeze
\* numpy.asarray of None, of a list, of an array
AsArray(h, fld) ==
    CASE h.kind = "None" -> ScalarArray
      [] h.kind = "list" -> ArrayOf(Contents(h, fld))
      [] OTHER -> h

\* numpy.asarray of a list of lists whose rows differ in length raises
Ragged(attr, fld) ==
    \E i, j \in DOMAIN attr.rows :
        Len(Contents(attr.rows[i], fld)) # Len(Contents(attr.rows[j], fld))

AsArrayRows(attr, fld) ==
    ArrayRows([i \in DOMAIN attr.rows |-> ArrayOf(Contents(attr.rows[i], fld))])

Freeze ==
    /\ ensemble_names' = [ensemble_names EXCEPT !.kind = "array"]
    /\ trajectories' = [trajectories EXCEPT !.kind = "array"]
    /\ times' = AsArray(times, "times")
    /\ IF Ragged(Eps, "Eps")
       THEN /\ res' = Raised("freeze", 0, "ValueError", "inhomogeneous shape", 0)
            /\ UNCHANGED <<Eps, Ecs, Qs, frozen>>
       ELSE /\ Eps' = AsArrayRows(Eps, "Eps")
            /\ IF Ragged(Ecs, "Ecs")
               THEN /\ res' = Raised("freeze", 0, "ValueError",
                                     "inhomogeneous shape", 0)
                    /\ UNCHANGED <<Ecs, Qs, frozen>>
               ELSE /\ Ecs' = AsArrayRows(Ecs, "Ecs")
                    /\ IF Ragged(Qs, "Qs")
                       THEN /\ res' = Raised("freeze", 0, "ValueError",
                                             "inhomogeneous shape", 0)
                            /\ UNCHANGED <<Qs, frozen>>
                       ELSE /\ Qs' = AsArrayRows(Qs, "Qs")
                            /\ frozen' = TRUE
                            /\ res' = Returned("freeze", 0, <<>>)
    /\ UNCHANGED <<flows, metadata, otherVars>>

\* ------------------------------------------------- FlowEnsemble.Q_history
Min3(a, b, c) == IF a <= b /\ a <= c THEN a ELSE IF b <= c THEN b ELSE c

\* L = min(NX, NY, NZ); t = L**2 / 32, in units of 1/32
HalfLattice == Min3(metadata.NX, metadata.NY, metadata.NZ) ^ 2

\* (self.times <= t).nonzero()[0], t in units of 1/32
NotAfter(t32) == {i \in DOMAIN times.val : 32 * times.val[i] <= t32}

\* (...).nonzero()[0][-1]
TIndexFirst(t32) == CHOOSE i \in NotAfter(t32) : \A j \in NotAfter(t32) : i <= j
TIndex(t32) == CHOOSE i \in NotAfter(t32) : \A j \in NotAfter(t32) : j <= i

\* the body of Q_history once t is a number (t32 / 32)
QHistoryAt(arg, t32) ==
    IF times.kind # "array"
    THEN \* list <= float, None <= float
         res' = Raised("Q_history", arg, "TypeError", "<=", 0)
    ELSE IF NotAfter(t32) = {}
    THEN res' = Raised("Q_history", arg, "IndexError", "index -1 is out of bounds", 0)
    ELSE IF Qs.kind # "array"
    THEN res' = Raised("Q_history", arg, "TypeError", "list indices", 0)
    ELSE IF Qs.rows = <<>>
    THEN \* asarray([]) has one dimension
         res' = Raised("Q_history", arg, "IndexError", "too many indices", 0)
    ELSE IF TIndex(t32) > Len(Qs.rows[1].val)
    THEN res' = Raised("Q_history", arg, "IndexError", "out of bounds for axis 1", 0)
    ELSE res' = Returned("Q_history", arg,
                  [m \in DOMAIN Qs.rows |-> Qs.rows[m].val[TIndex(t32)]])

\* Q_history(t) with t a number
QHistory(t) ==
    /\ QHistoryAt(32 * t, 32 * t)
    /\ UNCHANGED <<flows, ensVars, otherVars>>

\* Q_history(), t = "L/2"
QHistoryDefault ==
    /\ IF ~({"NX", "NY", "NZ"} \subseteq DOMAIN metadata)
       THEN res' = Raised("Q_history", -1, "KeyError", "metadata", 0)
       ELSE QHistoryAt(-1, HalfLattice)
    /\ UNCHANGED <<flows, ensVars, otherVars>>

\* add_metadata of the readers: the geometry line of the log
AddMetadata(g) ==
    /\ metadata' = [k \in DOMAIN metadata \cup {"NT", "NX", "NY", "NZ"} |->
                      CASE k = "NT" -> g.NT
                        [] k = "NX" -> g.NX
                        [] k = "NY" -> g.NY
                        [] k = "NZ" -> g.NZ
                        [] OTHER -> metadata[k]]
    /\ res' = Returned("add_metadata", 0, <<>>)
    /\ UNCHANGED <<flows, ensemble_names, trajectories, times, Eps, Ecs, Qs, frozen,
                   otherVars>>

\* ----------------------------------------------------------- behaviours
\* flow = Flow(trajectory=...) in a reader's loop: the name is rebound to a
\* new object, the old one is garbage unless the ensemble holds its lists
FlowNew(f) ==
    /\ ~Referenced(f)
    /\ flows[f] # NewFlow(f)
    /\ flows' = [flows EXCEPT ![f] = NewFlow(f)]
    /\ res' = Returned("Flow", f, <<>>)
    /\ UNCHANGED <<ensVars, otherVars>>

\* a reader builds one Flow at a time, step by step, before it appends it
\* to the ensemble, and does not touch it afterwards
UnderConstruction(f) == ~Referenced(f) /\ flows[f] # NewFlow(f)

BuildFlow(f, flowstep) ==
    /\ ~Referenced(f)
    /\ \A g \in FlowIds \ {f} : ~UnderConstruction(g)
    /\ FlowAppend(f, flowstep)

\* a caller that kept the Flow goes on appending steps to it after
\* FlowEnsemble.append took it
FlowAppendLater(f, flowstep) == Referenced(f) /\ FlowAppend(f, flowstep)

\* Flow objects alone: any steps appended to any of them, in any order
MaxTime == 2         \* the flow times offered to a Flow on its own
AnySteps(f) ==
    {FlowStep(t, 100 * f + 10 + t, 100 * f + 20 + t, f * (2 * t - 1)) : t \in 0..MaxTime}

NextFlow ==
    \/ \E f \in FlowIds : FlowNew(f)
    \/ \E f \in FlowIds : \E s \in AnySteps(f) : FlowAppend(f, s)

SpecFlow == Init /\ [][NextFlow]_vars

\* the readers: a Flow is consumed once by FlowEnsemble.append
NextReader ==
    \/ \E f \in FlowIds : FlowNew(f)
    \/ \E f \in FlowIds : \E s \in FlowSteps(f) : BuildFlow(f, s)
    \/ \E f \in FlowIds, fld \in {"Eps", "Ecs", "Qs"} : FlowTruncate(f, fld)
    \/ \E f \in FlowIds : EnsAppend(f)
    \/ Freeze
    \/ \E g \in Geometries : AddMetadata(g)
    \/ \E t \in QueryTimes : QHistory(t)
    \/ QHistoryDefault

SpecReader == Init /\ [][NextReader]_vars

\* any caller
Next ==
    \/ NextReader
    \/ \E f \in FlowIds : \E s \in FlowSteps(f) : FlowAppendLater(f, s)

Spec == Init /\ [][Next]_vars
\* ======================================================= exact numbers
\* numpy floats are modelled as exact fractions n/d in lowest terms with
\* d > 0; NotFinite stands for the inf or nan of a division by zero
RECURSIVE GCD(_, _)
GCD(a, b) == IF b = 0 THEN a ELSE GCD(b, a % b)

Abs(x) == IF x < 0 THEN -x ELSE x

NotFinite == [n |-> 0, d |-> 0]

Frac(n, d) ==
    IF d = 0 THEN NotFinite
    ELSE LET g == GCD(Abs(n), Abs(d))
         IN  IF d > 0 THEN [n |-> n \div g, d |-> d \div g]
             ELSE [n |-> (-n) \div g, d |-> (-d) \div g]

RECURSIVE SumSeq(_)
SumSeq(q) == IF q = <<>> THEN 0 ELSE q[1] + SumSeq(Tail(q))

MaxSeq(q) == CHOOSE x \in {q[i] : i \in DOMAIN q} : \A i \in DOMAIN q : q[i] <= x
MinSeq(q) == CHOOSE x \in {q[i] : i \in DOMAIN q} : \A i \in DOMAIN q : x <= q[i]

\* ------------------------------------- FlowEnsemble.hs, is_adaptive, h
ToleranceInverse == 100000    \* 1 / tolerance, tolerance = 1e-5

\* times[1:] - times[:-1]
Hs(grid) == [i \in 1..(Len(grid) - 1) |-> grid[i + 1] - grid[i]]

\* (hs.max() - hs.min()) / hs.mean() > tolerance, on a non-decreasing grid
\* of two or more times; 0 / 0 is nan, and nan > tolerance is False
IsAdaptive(grid) ==
    /\ SumSeq(Hs(grid)) > 0
    /\ (MaxSeq(Hs(grid)) - MinSeq(Hs(grid))) * Len(Hs(grid)) * ToleranceInverse
          > SumSeq(Hs(grid))

\* hs.mean()
H(grid) == Frac(SumSeq(Hs(grid)), Len(Hs(grid)))

\* ------------------------------------------------- threshold_interpolate
\* the thresholds, time grids and sample values offered to the function
NRows == 2
Thresholds == {Frac(0, 1), Frac(1, 2), Frac(1, 1), Frac(3, 2), Frac(2, 1)}
Grids == {<<0, 1, 2>>, <<0, 2, 4>>, <<0, 1, 3>>}
SampleVals == {0, 1, 2}

\* a frozen ensemble of one configuration on the grid
FrozenOn(grid) ==
    /\ flows = [f \in FlowIds |-> NewFlow(f)]
    /\ ensemble_names = [kind |-> "array", val |-> <<"">>]
    /\ trajectories = [kind |-> "array", val |-> <<1>>]
    /\ times = ArrayOf(grid)
    /\ Eps = ArrayRows(<<ArrayOf([i \in DOMAIN grid |-> 110 + grid[i]])>>)
    /\ Ecs = ArrayRows(<<ArrayOf([i \in DOMAIN grid |-> 120 + grid[i]])>>)
    /\ Qs = ArrayRows(<<ArrayOf([i \in DOMAIN grid |-> 2 * grid[i] - 1])>>)
    /\ frozen = TRUE
    /\ metadata = NoKeys

InitInterpolate ==
    /\ \E grid \in Grids :
         /\ FrozenOn(grid)
         /\ values \in [1..NRows -> [DOMAIN grid -> SampleVals]]
    /\ threshold \in Thresholds
    /\ series = <<>>
    /\ warned = <<>>
    /\ res = Returned("__init__", 0, <<>>)
    /\ Loaded

\* v > threshold
Exceeds(v, T) == v * T.d > T.n

\* (threshold <= values[:, 0]).any()
StartsAbove(vals, T) == \E r \in DOMAIN vals : T.n <= vals[r][1] * T.d

\* argmax(row > threshold): the 0-based index of the first sample above the
\* threshold, 0 when there is none
ArgMax(row, T) ==
    LET above == {i \in DOMAIN row : Exceeds(row[i], T)}
    IN  IF above = {} THEN 0
        ELSE (CHOOSE i \in above : \A j \in above : i <= j) - 1

Positions(vals, T) == [r \in DOMAIN vals |-> ArgMax(vals[r], T)]

\* positions[positions > 0]
Positive(p) == p > 0
Reaching(positions) == SelectSeq(positions, Positive)

\* the row of values that values[tuple(zip(*enumerate(positions)))] reads
\* for the k-th kept position: enumerate numbers the kept positions
RowOf(positions, k) == k

\* flow_ensemble.times[position], position 0-based
TimeAt(grid, position) == grid[position + 1]

\* times[position] + h * (threshold - below) / (at - below)

CrossingTime(t, h, T, below, at) ==
    IF h.d = 0 \/ at = below THEN NotFinite
    ELSE Frac(t * h.d * T.d * (at - below) + h.n * (T.n - below * T.d),
              h.d * T.d * (at - below))

ThresholdInterpolate ==
    LET grid == times.val
        positions == Positions(values, threshold)
        kept == IF MinSeq(positions) = 0 THEN Reaching(positions) ELSE positions
        bad == Cardinality({r \in DOMAIN positions : positions[r] = 0})
        T_positions_minus_one ==
            [k \in DOMAIN kept |-> values[RowOf(positions, k)][kept[k]]]
        T_positions ==
            [k \in DOMAIN kept |-> values[RowOf(positions, k)][kept[k] + 1]]
    IN
    /\ res.op = "__init__"
    /\ IF StartsAbove(values, threshold)
       THEN /\ res' = Raised("threshold_interpolate", 0, "ValueError",
                             "Some or all flows start above threshold.", 0)
            /\ warned' = <<>>
       ELSE /\ warned' = IF MinSeq(positions) = 0
                         THEN <<[bad_ratio |-> Frac(bad, Len(positions)),
                                 threshold |-> threshold]>>
                         ELSE <<>>
            /\ IF MinSeq(positions) = 0 /\ kept = <<>>
               THEN res' = Raised("threshold_interpolate", 0, "ValueError",
                                  "No flows reach threshold.", 0)
               ELSE IF IsAdaptive(grid)
               THEN res' = Raised("threshold_interpolate", 0, "ValueError",
                                  "Can't get single step size of adaptive flow.", 0)
               ELSE res' = Returned("threshold_interpolate", 0,
                             [k \in DOMAIN kept |->
                                CrossingTime(TimeAt(grid, kept[k]), H(grid), threshold,
                                             T_positions_minus_one[k],
                                             T_positions[k])])
    /\ UNCHANGED <<flows, ensVars, values, threshold, series, bootVars>>

NextInterpolate == ThresholdInterpolate

SpecInterpolate == InitInterpolate /\ [][NextInterpolate]_vars

\* ---------------------------------------------------------------- autocorr
MaxSeries == 6       \* length of the series offered to autocorr
SeriesVals == {0, 1}
Cutoffs == {0, 2}    \* the cutoff argument; 0 stands for None

InitAutocorr ==
    /\ FrozenOn(<<0, 1, 2>>)
    /\ values = <<>>
    /\ threshold = Frac(0, 1)
    /\ series \in UNION {[1..n -> SeriesVals] : n \in 1..MaxSeries}
    /\ warned = <<>>
    /\ res = Returned("__init__", 0, <<>>)
    /\ Loaded

\* n * (series - mean(series)): the zero-centered series, times its length
Centered(x) == [k \in DOMAIN x |-> Len(x) * x[k] - SumSeq(x)]

\* mean(z[:-i] * z[i:]) / var(z), z the zero-centered series
Correlation(x, i) ==
    LET zc == Centered(x)
        n == Len(x)
    IN  IF i >= n THEN NotFinite
        ELSE Frac(n * SumSeq([k \in 1..(n - i) |-> zc[k] * zc[k + i]]),
                  (n - i) * SumSeq([k \in 1..n |-> zc[k] * zc[k]]))

\* if not cutoff: cutoff = len(series) // 2
CutoffOf(x, cutoff) == IF cutoff = 0 THEN Len(x) \div 2 ELSE cutoff

Autocorr(cutoff) ==
    LET c == CutoffOf(series, cutoff) IN
    /\ res.op = "__init__"
    /\ IF c - 1 < 0
       THEN \* np.zeros(-1)
            res' = Raised("autocorr", cutoff, "ValueError",
                          "negative dimensions are not allowed", 0)
       ELSE IF c - 1 = 0
       THEN \* acf[0] = 1 on an array of size 0
            res' = Raised("autocorr", cutoff, "IndexError",
                          "index 0 is out of bounds for axis 0 with size 0", 0)
       ELSE res' = Returned("autocorr", cutoff,
                     [j \in 1..(c - 1) |->
                        IF j = 1 THEN Frac(1, 1) ELSE Correlation(series, j - 1)])
    /\ UNCHANGED <<flows, ensVars, warned, values, threshold, series, bootVars>>

NextAutocorr == \E cutoff \in Cutoffs : Autocorr(cutoff)

SpecAutocorr == InitAutocorr /\ [][NextAutocorr]_vars

\* ------------------------------------------------------------- flat_bin_Qs
\* Q values are carried in units of 1/2, so that .round() has ties to settle
MaxQs == 6           \* length of the Q history offered to flat_bin_Qs
QHalves == {-3, -2, 0, 1, 2}
TArgs == {0, 1}      \* the t argument; 0 stands for None

InitBins ==
    /\ FrozenOn(<<0, 1, 2>>)
    /\ values = <<>>
    /\ threshold = Frac(0, 1)
    /\ series \in UNION {[1..n -> QHalves] : n \in 1..MaxQs}
    /\ warned = <<>>
    /\ res = Returned("__init__", 0, <<>>)
    /\ Loaded

\* ndarray.round() of h/2: to the nearest integer, a tie to the even one
Round(h) ==
    IF h % 2 = 0 THEN h \div 2
    ELSE LET lo == (h - 1) \div 2 IN IF lo % 2 = 0 THEN lo ELSE lo + 1

\* Counter(Q_history.round()); a missing key counts 0
Counter(q) ==
    [Q \in {Round(q[i]) : i \in DOMAIN q} |->
        Cardinality({i \in DOMAIN q : Round(q[i]) = Q})]
CountOf(Q_bins, Q) == IF Q \in DOMAIN Q_bins THEN Q_bins[Q] ELSE 0

MinOf(S) == CHOOSE x \in S : \A y \in S : x <= y
MaxOf(S) == CHOOSE x \in S : \A y \in S : y <= x

\* range_min = min(min(Q_bins), -max(Q_bins)) - 1
RangeMinNoMirror(Q_bins) == MinOf(DOMAIN Q_bins) - 1
RangeMin(Q_bins) ==
    MinOf({MinOf(DOMAIN Q_bins), -MaxOf(DOMAIN Q_bins)}) - 1
\* range_max = -range_min + 1
RangeMax(range_min) == -range_min + 1
\* np.arange(range_min, range_max)
Arange(lo, hi) == [i \in 1..(hi - lo) |-> lo + i - 1]

\* flat_bin_Qs on an array of Q values (the FlowEnsemble branch first takes
\* the array from Q_history, modelled by QHistory above)
FlatBinQs(t) ==
    /\ res.op = "__init__"
    /\ IF t # 0
       THEN res' = Raised("flat_bin_Qs", t, "ValueError",
                          "Cannot recompute Q at a different flow time.", 0)
       ELSE LET Q_bins == Counter(series)
                Q_range == Arange(RangeMin(Q_bins), RangeMax(RangeMin(Q_bins)))
            IN  res' = Returned("flat_bin_Qs", t,
                         [Q_range |-> Q_range,
                          Q_counts |-> [i \in DOMAIN Q_range |->
                                           CountOf(Q_bins, Q_range[i])]])
    /\ UNCHANGED <<flows, ensVars, warned, values, threshold, series, bootVars>>

NextBins == \E t \in TArgs : FlatBinQs(t)

SpecBins == InitBins /\ [][NextBins]_vars

\* --------------------------------------------------------- basic_bootstrap
BOOTSTRAP_SAMPLE_COUNT == 200
MaxCopies == 3       \* length of the series offered to basic_bootstrap
BootVals == {-1, 0, 2}

\* sums over the least common denominator, products after cancelling
\* across, to keep the numbers small
FracAdd(a, b) ==
    IF a.d = 0 \/ b.d = 0 THEN NotFinite
    ELSE LET g == GCD(a.d, b.d)
         IN  Frac(a.n * (b.d \div g) + b.n * (a.d \div g), (a.d \div g) * b.d)
FracSub(a, b) == FracAdd(a, [n |-> -b.n, d |-> b.d])
FracMul(a, b) ==
    IF a.d = 0 \/ b.d = 0 \/ a.n = 0 \/ b.n = 0 THEN Frac(a.n * b.n, a.d * b.d)
    ELSE LET g == GCD(Abs(a.n), b.d)
             k == GCD(Abs(b.n), a.d)
         IN  Frac((a.n \div g) * (b.n \div k), (a.d \div k) * (b.d \div g))
RECURSIVE SumFrac(_)
SumFrac(q) ==
    IF q = <<>> THEN Frac(0, 1)
    ELSE IF Len(q) = 1 THEN q[1]
    ELSE LET half == Len(q) \div 2
         IN  FracAdd(SumFrac(SubSeq(q, 1, half)),
                     SumFrac(SubSeq(q, half + 1, Len(q))))

\* numpy.mean of integers and of fractions
Mean(q) == Frac(SumSeq(q), Len(q))
MeanFrac(q) == FracMul(SumFrac(q), Frac(1, Len(q)))

\* numpy.std is the square root of the mean squared deviation from the mean
SecondMoment(q) == MeanFrac([i \in DOMAIN q |-> FracMul(q[i], q[i])])
SquaredDeviations(q, m) ==
    [i \in DOMAIN q |-> FracMul(FracSub(q[i], m), FracSub(q[i], m))]
Variance(q) == MeanFrac(SquaredDeviations(q, MeanFrac(q)))
Sqrt(v) == [root_of |-> v]
Std(q) == Sqrt(Variance(q))

\* the series basic_bootstrap is called on: N copies of one value
InitBootstrap ==
    /\ FrozenOn(<<0, 1, 2>>)
    /\ values = <<>>
    /\ threshold = Frac(0, 1)
    /\ \E n \in 1..MaxCopies : series \in {[k \in 1..n |-> c] : c \in BootVals}
    /\ warned = <<>>
    /\ res = Returned("__init__", 0, <<>>)
    /\ filename = <<"out", "run1">>
    /\ default_rng \in {[id |-> "DEFAULT_RNG", seed |-> e, pos |-> 0] : e \in {0, 1}}
    /\ samples = <<>>

\* rng.choice(values, len(values)) for the indices the generator draws
Choice(x, indices) == [k \in DOMAIN x |-> x[indices[k]]]

\* one pass of the loop of basic_bootstrap(values), on DEFAULT_RNG:
\* samples.append(mean(rng.choice(values, len(values))))
BootstrapResample(indices) ==
    /\ res.op = "__init__"
    /\ Len(samples) < BOOTSTRAP_SAMPLE_COUNT
    /\ samples' = Append(samples, Mean(Choice(series, indices)))
    /\ default_rng' = [default_rng EXCEPT !.pos = @ + Len(series)]
    /\ UNCHANGED <<flows, ensVars, res, warned, values, threshold, series,
                   filename>>

\* return bootstrap_finalize(samples)
BootstrapFinalize ==
    /\ res.op = "__init__"
    /\ Len(samples) = BOOTSTRAP_SAMPLE_COUNT
    /\ res' = Returned("basic_bootstrap", 0,
                       [value |-> MeanFrac(samples), uncertainty |-> Std(samples)])
    /\ UNCHANGED <<flows, ensVars, warned, values, threshold, series, bootVars>>

NextBootstrap ==
    \/ \E indices \in [DOMAIN series -> DOMAIN series] : BootstrapResample(indices)
    \/ BootstrapFinalize

SpecBootstrap == InitBootstrap /\ [][NextBootstrap]_vars

\* ------------------------------------------- the resampling measurements
MaxDefaultCalls == 2 \* calls that draw from DEFAULT_RNG
Filenames == {<<"out", "run1">>, <<"alt", "run1">>, <<"out", "run2">>}
Entropy == {0, 1}    \* what default_rng() takes from the system when unseeded
Operators == {"plaq", "sym", "clover"}

\* the ensemble measured is frozen and has one member
MeasureGrids == {<<0, 1, 2>>, <<0, 1, 3>>}
InitMeasure ==
    /\ \E grid \in MeasureGrids : FrozenOn(grid)
    /\ values = <<>>
    /\ threshold = Frac(0, 1)
    /\ series = <<>>
    /\ warned = <<>>
    /\ res = Returned("__init__", 0, <<>>)
    /\ filename \in Filenames
    /\ default_rng \in {[id |-> "DEFAULT_RNG", seed |-> e, pos |-> 0] : e \in Entropy}
    /\ samples = <<>>

\* os.path.basename
Basename(path) == path[Len(path)]

\* abs(int.from_bytes(hashlib.md5(name.encode("utf8")).digest(), "big")):
\* a number fixed by the name, different for the names here
Digest(name) == CASE name = "run1" -> 1101 [] name = "run2" -> 2202 [] OTHER -> 3303

\* FlowEnsemble.get_rng: a new generator seeded from the base filename
GetRngShared == default_rng
GetRng == [id |-> "get_rng", seed |-> Digest(Basename(filename)), pos |-> 0]

\* what a generator yields is fixed by its seed and by how far it has run
Drawn(g, count) == [id |-> g.id, seed |-> g.seed, from |-> g.pos, count |-> count]

\* DEFAULT_RNG after count numbers are drawn from generator g
Advance(g, count) ==
    IF g.id = default_rng.id
    THEN [default_rng EXCEPT !.pos = @ + count]
    ELSE default_rng

Members == Len(trajectories.val)

\* rng.integers(n, size=(BOOTSTRAP_SAMPLE_COUNT, n)) and rng.choice(values, n)
\* for n = 1: member 0 in every place, whatever the generator
OnlyMember(n) == [b \in 1..BOOTSTRAP_SAMPLE_COUNT |-> [k \in 1..n |-> 1]]

\* sample_bootstrap_1d: the mean over the drawn members at each time
SampleBootstrap1d(rows, configurations) ==
    [b \in DOMAIN configurations |->
        [t \in DOMAIN rows[1].val |->
            Frac(SumSeq([k \in DOMAIN configurations[b] |->
                           rows[configurations[b][k]].val[t]]),
                 Len(configurations[b]))]]

\* FlowEnsemble.get_Es
ValidOperator(operator) == operator \in {"plaq", "sym"}
GetEs(operator) == IF operator = "plaq" THEN Eps ELSE Ecs
InvalidOperator(op, operator) ==
    Raised(op, operator, "ValueError",
           "Invalid operator. Valid operators are plaq and sym.", 0)

\* flow_ensemble.times**2 * bs_Es
T2E(bs_Es) ==
    [b \in DOMAIN bs_Es |->
        [t \in DOMAIN bs_Es[b] |->
            FracMul(Frac(times.val[t] * times.val[t], 1), bs_Es[b][t])]]

FracDiv(a, b) == Frac(a.n * b.d, a.d * b.n)

\* times[1:-1] * (t2E[:, 2:] - t2E[:, :-2]) / (2 * flow_ensemble.h)
TdT2Edt(t2E, h) ==
    [b \in DOMAIN t2E |->
        [j \in 1..(Len(times.val) - 2) |->
            FracDiv(FracMul(Frac(times.val[j + 1], 1),
                            FracSub(t2E[b][j + 2], t2E[b][j])),
                    FracMul(Frac(2, 1), h))]]

\* compute_wt_samples for an operator get_Es accepts, on a uniform grid
WtSamples(operator) ==
    TdT2Edt(T2E(SampleBootstrap1d(GetEs(operator).rows, OnlyMember(Members))),
            H(times.val))

\* bootstrap_finalize_Nd(samples, axis=0): mean and standard deviation
\* along the resample axis, for each time
BootstrapFinalizeNd(rows) ==
    [mean |-> [t \in DOMAIN rows[1] |-> MeanFrac([b \in DOMAIN rows |-> rows[b][t]])],
     std |-> [t \in DOMAIN rows[1] |-> Std([b \in DOMAIN rows |-> rows[b][t]])]]

\* the draws of one resampling call on an ensemble of n members
DrawCount(n) == BOOTSTRAP_SAMPLE_COUNT * n

Draws(g) ==
    /\ samples' = <<Drawn(g, DrawCount(Members))>>
    /\ default_rng' = Advance(g, DrawCount(Members))
NoDraws == samples' = <<>> /\ UNCHANGED default_rng

ComputeT2ESamples(operator) ==
    /\ IF ~ValidOperator(operator)
       THEN res' = InvalidOperator("compute_t2E_samples", operator) /\ NoDraws
       ELSE /\ Draws(GetRng)
            /\ res' = Returned("compute_t2E_samples", operator,
                        T2E(SampleBootstrap1d(GetEs(operator).rows,
                                              OnlyMember(Members))))
    /\ UNCHANGED <<flows, ensVars, warned, values, threshold, series, filename>>

ComputeT2Et(operator) ==
    /\ IF ~ValidOperator(operator)
       THEN res' = InvalidOperator("compute_t2E_t", operator) /\ NoDraws
       ELSE /\ Draws(GetRng)
            /\ res' = Returned("compute_t2E_t", operator,
                        BootstrapFinalizeNd(
                          T2E(SampleBootstrap1d(GetEs(operator).rows,
                                                OnlyMember(Members)))))
    /\ UNCHANGED <<flows, ensVars, warned, values, threshold, series, filename>>

AdaptiveFlow(op, operator) ==
    Raised(op, operator, "ValueError",
           "Can't get single step size of adaptive flow.", 0)

ComputeWtSamples(operator) ==
    /\ IF ~ValidOperator(operator)
       THEN res' = InvalidOperator("compute_wt_samples", operator) /\ NoDraws
       ELSE /\ Draws(GetRng)
            /\ IF IsAdaptive(times.val)
               THEN res' = AdaptiveFlow("compute_wt_samples", operator)
               ELSE res' = Returned("compute_wt_samples", operator,
                                    WtSamples(operator))
    /\ UNCHANGED <<flows, ensVars, warned, values, threshold, series, filename>>

\* wt_samples = compute_wt_samples(flow_ensemble, operator="sym")
ComputeWtT(operator) ==
    /\ Draws(GetRng)
    /\ IF IsAdaptive(times.val)
       THEN res' = AdaptiveFlow("compute_wt_t", operator)
       ELSE res' = Returned("compute_wt_t", operator,
                            BootstrapFinalizeNd(WtSamples("sym")))
    /\ UNCHANGED <<flows, ensVars, warned, values, threshold, series, filename>>

\* flow_ensemble.Q_history("L/2") of the frozen ensemble
HasGeometry(keys) == keys \subseteq DOMAIN metadata
QColumn == [m \in DOMAIN Qs.rows |-> Qs.rows[m].val[TIndex(HalfLattice)]]

\* the samples of basic_bootstrap: mean(rng.choice(values, len(values)))
BasicSamples(x, choices) ==
    [b \in DOMAIN choices |-> Mean(Choice(x, choices[b]))]
\* of bootstrap_susceptibility: mean(sample**2) - mean(sample)**2
SusceptibilitySamples(x, choices) ==
    [b \in DOMAIN choices |->
        LET sample == Choice(x, choices[b])
        IN  FracSub(Mean([k \in DOMAIN sample |-> sample[k] * sample[k]]),
                    FracMul(Mean(sample), Mean(sample)))]
\* ufloat(mean(samples), std(samples))
Finalize(q) == [value |-> MeanFrac(q), uncertainty |-> Std(q)]

QMean ==
    /\ IF ~HasGeometry({"NX", "NY", "NZ"})
       THEN res' = Raised("Q_mean", "L/2", "KeyError", "metadata", 0) /\ NoDraws
       ELSE /\ Draws(GetRng)
            /\ res' = Returned("Q_mean", "L/2",
                        Finalize(BasicSamples(QColumn, OnlyMember(Members))))
    /\ UNCHANGED <<flows, ensVars, warned, values, threshold, series, filename>>

\* unnorm_suscept / V
QSusceptibility ==
    /\ IF ~HasGeometry({"NX", "NY", "NZ", "NT"})
       THEN res' = Raised("Q_susceptibility", "L/2", "KeyError", "metadata", 0)
            /\ NoDraws
       ELSE LET V == metadata.NX * metadata.NY * metadata.NZ * metadata.NT
                q == SusceptibilitySamples(QColumn, OnlyMember(Members))
            IN  /\ Draws(GetRng)
                /\ res' = Returned("Q_susceptibility", "L/2",
                            [value |-> FracDiv(MeanFrac(q), Frac(V, 1)),
                             uncertainty |->
                               Sqrt(FracDiv(Variance(q), Frac(V * V, 1)))])
    /\ UNCHANGED <<flows, ensVars, warned, values, threshold, series, filename>>

\* a caller that passes no generator: basic_bootstrap(Q_history) on DEFAULT_RNG
BasicBootstrapDefault ==
    /\ HasGeometry({"NX", "NY", "NZ"})
    /\ default_rng.pos < MaxDefaultCalls * DrawCount(Members)
    /\ Draws(default_rng)
    /\ res' = Returned("basic_bootstrap", "L/2",
                       Finalize(BasicSamples(QColumn, OnlyMember(Members))))
    /\ UNCHANGED <<flows, ensVars, warned, values, threshold, series, filename>>

NextMeasure ==
    \/ \E g \in Geometries : AddMetadata(g)
    \/ QMean
    \/ QSusceptibility
    \/ \E operator \in Operators : ComputeT2ESamples(operator)
    \/ \E operator \in Operators : ComputeT2Et(operator)
    \/ \E operator \in Operators : ComputeWtSamples(operator)
    \/ \E operator \in Operators : ComputeWtT(operator)
    \/ BasicBootstrapDefault

SpecMeasure == InitMeasure /\ [][NextMeasure]_vars

\* ------------------------------------------------- exp_autocorrelation_fit
MaxFitSeries == 8    \* length of the series offered to exp_autocorrelation_fit
FitRanges == {2, 3}
Infinity == [n |-> 1, d |-> 0]
\* what curve_fit can report: tau_exp, and tau_exp_error (inf when the
\* covariance cannot be estimated)
TauVals == {Frac(-1, 1), Frac(1, 20), Frac(1, 2), Frac(1, 1), Frac(2, 1)}
TauErrors == {Frac(1, 4), Frac(5, 1), Frac(6, 1), Infinity}

InitFit ==
    /\ FrozenOn(<<0, 1, 2>>)
    /\ values = <<>>
    /\ threshold = Frac(0, 1)
    /\ series \in UNION {[1..n -> SeriesVals] : n \in 1..MaxFitSeries}
    /\ warned = <<>>
    /\ res = Returned("__init__", 0, <<>>)
    /\ Loaded

\* autocorr(series) where it returns
Acf(x) ==
    [j \in 1..(CutoffOf(x, 0) - 1) |->
        IF j = 1 THEN Frac(1, 1) ELSE Correlation(x, j - 1)]

\* a < b; false when either is nan
FracLess(a, b) ==
    /\ a # NotFinite
    /\ b # NotFinite
    /\ ~(a.d = 0 /\ b.d = 0)
    /\ LET g == GCD(a.d, b.d)
       IN  a.n * (b.d \div g) < b.n * (a.d \div g)

\* acf[1:fit_range]
Beyond(acf, fit_range) ==
    IF Len(acf) < 2 \/ fit_range < 2 THEN <<>>
    ELSE SubSeq(acf, 2, IF fit_range < Len(acf) THEN fit_range ELSE Len(acf))

\* np.std(q) > np.mean(q); of an empty slice both are nan
StdExceedsMean(q) ==
    /\ q # <<>>
    /\ \A i \in DOMAIN q : q[i] # NotFinite
    /\ \/ MeanFrac(q).n < 0
       \/ FracLess(FracMul(MeanFrac(q), MeanFrac(q)), Variance(q))

\* tau_exp < 1 and tau_exp_error > 10 * tau_exp, then std > mean
OverriddenOnFitAlone(tau_exp, tau_exp_error, acf, fit_range) ==
    /\ FracLess(tau_exp, Frac(1, 1))
    /\ FracLess(FracMul(Frac(10, 1), tau_exp), tau_exp_error)
Overridden(tau_exp, tau_exp_error, acf, fit_range) ==
    /\ FracLess(tau_exp, Frac(1, 1))
    /\ FracLess(FracMul(Frac(10, 1), tau_exp), tau_exp_error)
    /\ StdExceedsMean(Beyond(acf, fit_range))

\* curve_fit either fails or reports tau_exp and tau_exp_error; it cannot
\* match fit_range abscissae with another number (but one) of ordinates
ExpAutocorrelationFit(fit_range, fitted, tau_exp, tau_exp_error) ==
    LET c == CutoffOf(series, 0)
        arg == [fit_range |-> fit_range, tau_exp |-> tau_exp,
                tau_exp_error |-> tau_exp_error]
    IN
    /\ res.op = "__init__"
    /\ IF c - 1 < 0
       THEN res' = Raised("exp_autocorrelation_fit", arg, "ValueError",
                          "negative dimensions are not allowed", 0)
       ELSE IF c - 1 = 0
       THEN res' = Raised("exp_autocorrelation_fit", arg, "IndexError",
                          "index 0 is out of bounds for axis 0 with size 0", 0)
       ELSE IF Len(Acf(series)) < fit_range /\ Len(Acf(series)) # 1
       THEN res' = Raised("exp_autocorrelation_fit", arg, "ValueError",
                          "operands could not be broadcast together", 0)
       ELSE IF ~fitted
       THEN res' = Raised("exp_autocorrelation_fit", arg, "RuntimeError",
                          "Optimal parameters not found", 0)
       ELSE IF Overridden(tau_exp, tau_exp_error, Acf(series), fit_range)
       THEN res' = Returned("exp_autocorrelation_fit", arg,
                            [value |-> Frac(0, 1), uncertainty |-> Frac(1, 2)])
       ELSE res' = Returned("exp_autocorrelation_fit", arg,
                            [value |-> tau_exp, uncertainty |-> tau_exp_error])
    /\ UNCHANGED <<flows, ensVars, warned, values, threshold, series, bootVars>>

NextFit ==
    \E fit_range \in FitRanges, fitted \in BOOLEAN,
       tau_exp \in TauVals, tau_exp_error \in TauErrors :
        ExpAutocorrelationFit(fit_range, fitted, tau_exp, tau_exp_error)

SpecFit == InitFit /\ [][NextFit]_vars

\* ================================================ FlowEnsemble properties
\* what the ensemble holds, by value
EnsembleData ==
    [times |-> Contents(times, "times"),
     Eps |-> RowContents(Eps, "Eps"),
     Ecs |-> RowContents(Ecs, "Ecs"),
     Qs |-> RowContents(Qs, "Qs")]

members == <<ensemble_names, trajectories, Eps, Ecs, Qs>>

\* C2: once FlowEnsemble.append(flow) has succeeded, no Flow.append call
\* changes the ensemble's times or its Eps, Ecs and Qs rows.
C2_EnsembleOwnsData ==
    [][(trajectories.val # <<>> /\ res'.op = "Flow.append")
          => EnsembleData' = EnsembleData]_vars

\* C3: after freeze() the ensemble stays frozen, and every append(flow)
\* fails with the frozen error and adds no member.
C3_FrozenRejectsAppend ==
    /\ [](res.op = "freeze" => frozen)
    /\ [][frozen =>
            /\ frozen'
            /\ UNCHANGED <<members, times>>
            /\ (res'.op = "append" =>
                  /\ res'.err = "TypeError"
                  /\ res'.msg = "Can't append to a frozen ensemble.")]_vars

C3_Witness ==
    /\ frozen
    /\ trajectories.val # <<>>
    /\ res.op = "append"
    /\ res.err = "TypeError"

\* C4: on an unfrozen ensemble with an established time grid, append(flow)
\* fails with a consistency error naming the flow's trajectory when the
\* flow's times differ by value from the grid or its four lists differ in
\* length, and succeeds, adding the flow as the last member, otherwise.
C4_Outcome(f) ==
    LET flow == flows[f]
        differs == flow.times # Contents(times, "times")
        uneven == \E a, b \in {Len(flow.times), Len(flow.Eps), Len(flow.Ecs),
                               Len(flow.Qs)} : a # b
    IN  IF differs \/ uneven
        THEN /\ res'.err = "ValueError"
             /\ res'.traj = flow.trajectory
             /\ UNCHANGED <<members, times>>
        ELSE /\ res'.err = ""
             /\ trajectories'.val = Append(trajectories.val, flow.trajectory)
             /\ ensemble_names'.val = Append(ensemble_names.val, flow.ensemble)
             /\ RowContents(Eps, "Eps")' = Append(RowContents(Eps, "Eps"), flow.Eps)
             /\ RowContents(Ecs, "Ecs")' = Append(RowContents(Ecs, "Ecs"), flow.Ecs)
             /\ RowContents(Qs, "Qs")' = Append(RowContents(Qs, "Qs"), flow.Qs)

C4_AppendValidates ==
    [][\A f \in FlowIds :
          (~frozen /\ times.kind = "list" /\ res'.op = "append" /\ res'.arg = f)
             => C4_Outcome(f)]_vars

\* a flow of the grid's length whose times differ by value was rejected
C4_Witness ==
    /\ ~frozen
    /\ times.kind = "list"
    /\ trajectories.val # <<>>
    /\ res.op = "append"
    /\ res.err = "ValueError"
    /\ res.traj = flows[res.arg].trajectory
    /\ Len(flows[res.arg].times) = Len(Contents(times, "times"))
    /\ flows[res.arg].times # Contents(times, "times")
    /\ Len(flows[res.arg].Qs) = Len(flows[res.arg].times)

\* C5: a failed FlowEnsemble.append leaves ensemble_names, trajectories,
\* times, Eps, Ecs and Qs as they were, the first append included.
C5_FailedAppendChangesNothing ==
    [][(res'.op = "append" /\ res'.err # "") => UNCHANGED <<members, times>>]_vars

\* C6: after successful appends (at least one) and freeze(), Eps, Ecs and
\* Qs are arrays of shape (n_members, n_times), n_times the length of the
\* time grid, and ensemble_names and trajectories have length n_members;
\* n_members grows by one with each successful append and not otherwise.
HasShape(attr, n, m) ==
    /\ attr.kind = "array"
    /\ Len(attr.rows) = n
    /\ \A i \in DOMAIN attr.rows :
          attr.rows[i].kind = "array" /\ Len(attr.rows[i].val) = m

C6_Shapes ==
    /\ []((res.op = "freeze" /\ trajectories.val # <<>>) => frozen /\ res.err = "")
    /\ []((frozen /\ trajectories.val # <<>>) =>
            /\ times.kind = "array"
            /\ HasShape(Eps, Len(trajectories.val), Len(times.val))
            /\ HasShape(Ecs, Len(trajectories.val), Len(times.val))
            /\ HasShape(Qs, Len(trajectories.val), Len(times.val))
            /\ Len(ensemble_names.val) = Len(trajectories.val))
    /\ [][Len(trajectories'.val) =
            IF res'.op = "append" /\ res'.err = ""
            THEN Len(trajectories.val) + 1
            ELSE Len(trajectories.val)]_vars

C6_Witness ==
    /\ res.op = "freeze"
    /\ frozen
    /\ Len(trajectories.val) = 2
    /\ HasShape(Qs, 2, 2)

\* C7: on a frozen ensemble Q_history(t) returns, for every member, its Qs
\* entry at one column holding the greatest sampled time <= t (the last
\* column when t is not below the greatest time), t being the number given
\* or min(NX, NY, NZ)^2 / 32; it fails when no sampled time is <= t and when
\* the selector is "L/2" and NX, NY or NZ is missing.
C7_Asked ==
    IF res.arg = -1
    THEN Min3(metadata["NX"], metadata["NY"], metadata["NZ"]) ^ 2
    ELSE res.arg

C7_Sampled == {i \in DOMAIN times.val : 32 * times.val[i] <= C7_Asked}

C7_QHistory ==
    (res.op = "Q_history" /\ frozen) =>
       IF res.arg = -1 /\ ~({"NX", "NY", "NZ"} \subseteq DOMAIN metadata)
       THEN res.err # ""
       ELSE IF times.kind = "array" /\ C7_Sampled = {}
       THEN res.err # ""
       ELSE trajectories.val # <<>> =>
              /\ res.err = ""
              /\ DOMAIN res.val = DOMAIN trajectories.val
              /\ \E i \in C7_Sampled :
                    /\ \A j \in C7_Sampled : times.val[j] <= times.val[i]
                    /\ \A m \in DOMAIN res.val : res.val[m] = Qs.rows[m].val[i]
              /\ (\A j \in DOMAIN times.val : 32 * times.val[j] <= C7_Asked) =>
                    \A m \in DOMAIN res.val :
                        res.val[m] = Qs.rows[m].val[Len(times.val)]

\* the default selector picked the column of time 0 on the grid <<0, 1>>
C7_Witness ==
    /\ frozen
    /\ res.op = "Q_history"
    /\ res.arg = -1
    /\ res.err = ""
    /\ times.val = <<0, 1>>
    /\ Len(res.val) = 2
    /\ res.val[2] = Qs.rows[2].val[1]
    /\ res.val[2] # Qs.rows[2].val[2]
\* ========================================= threshold_interpolate properties
Crosses(row, T) == \E i \in DOMAIN row : Exceeds(row[i], T)

\* the rows that exceed the threshold, in the order of the input
CrossingRows == SelectSeq([r \in DOMAIN values |-> r],
                          LAMBDA r : Crosses(values[r], threshold))

\* the 1-based index of the first sample of row r above the threshold
FirstAbove(r) ==
    CHOOSE i \in DOMAIN values[r] :
        /\ Exceeds(values[r][i], threshold)
        /\ \A j \in DOMAIN values[r] : Exceeds(values[r][j], threshold) => i <= j

\* C1: on the unit-spaced grid t[i] = i with every row the identity curve
\* v[i] = t[i], threshold_interpolate returns T for every row, for every
\* threshold T with v[0] < T < v[last].
C1_InverseOfInterpolation ==
    (/\ res.op = "threshold_interpolate"
     /\ \A i \in DOMAIN times.val : times.val[i] = i - 1
     /\ \A r \in DOMAIN values : values[r] = times.val
     /\ threshold.n > 0
     /\ threshold.n < times.val[Len(times.val)] * threshold.d)
    => /\ res.err = ""
       /\ DOMAIN res.val = DOMAIN values
       /\ \A r \in DOMAIN res.val : res.val[r] = threshold

\* C8: when some but not all rows never exceed the threshold, the result
\* has one crossing time per crossing row, in order, each computed from
\* that row's own samples at its crossing index and the index before it.
C8_RowsKeepOwnSamples ==
    (/\ res.op = "threshold_interpolate"
     /\ res.err = ""
     /\ ~StartsAbove(values, threshold)
     /\ \E r \in DOMAIN values : ~Crosses(values[r], threshold))
    => /\ Len(res.val) = Len(CrossingRows)
       /\ \A k \in DOMAIN res.val :
             LET r == CrossingRows[k]
                 p == FirstAbove(r)
             IN  res.val[k] = CrossingTime(times.val[p], H(times.val), threshold,
                                           values[r][p - 1], values[r][p])

\* C9: with every row starting below the threshold: no row exceeds it, the
\* call fails with "No flows reach threshold."; some rows exceed it and
\* some do not, the call returns and warns with the fraction of rows that
\* do not; every row exceeds it, no warning.
C9_PartialCrossingWarns ==
    (res.op = "threshold_interpolate" /\ ~StartsAbove(values, threshold))
    => IF CrossingRows = <<>>
       THEN res.err = "ValueError" /\ res.msg = "No flows reach threshold."
       ELSE IF Len(CrossingRows) < Len(values)
       THEN /\ res.err = ""
            /\ Len(warned) = 1
            /\ warned[1].bad_ratio =
                 Frac(Len(values) - Len(CrossingRows), Len(values))
       ELSE warned = <<>>

\* ====================================================== autocorr properties
IsConstant(x) == \A i, j \in DOMAIN x : x[i] = x[j]

\* C10: for every non-constant series of length >= 2 and the default
\* cutoff, autocorr returns a result whose lag-0 entry exists and is 1.
C10_LagZeroIsOne ==
    (/\ res.op = "autocorr"
     /\ res.arg = 0
     /\ Len(series) >= 2
     /\ ~IsConstant(series))
    => /\ res.err = ""
       /\ Len(res.val) >= 1
       /\ res.val[1] = Frac(1, 1)

\* =================================================== flat_bin_Qs properties
\* the nearest integers of an input, as its rounding settles them
Rounded == [i \in DOMAIN series |-> Round(series[i])]
Nearest(h, Q) == 2 * Q - h \in {-1, 0, 1}
Mirror ==
    LET lo == MinOf({Rounded[i] : i \in DOMAIN series})
        hi == MaxOf({Rounded[i] : i \in DOMAIN series})
    IN  (IF lo < -hi THEN lo ELSE -hi) - 1

C12_ConstantSeries ==
    (res.op = "basic_bootstrap" /\ IsConstant(series))
    => /\ res.err = ""
       /\ Len(samples) = 200
       /\ res.val.value = Frac(series[1], 1)
       /\ res.val.uncertainty = Sqrt(Frac(0, 1))

C12_Witness ==
    /\ res.op = "basic_bootstrap"
    /\ Len(series) = MaxCopies
    /\ series[1] = 2
    /\ Len(samples) = BOOTSTRAP_SAMPLE_COUNT
    /\ default_rng.pos = BOOTSTRAP_SAMPLE_COUNT * MaxCopies

\* ========================================= resampling measurement properties
Measurements == {"Q_mean", "Q_susceptibility", "compute_t2E_samples",
                 "compute_t2E_t", "compute_wt_samples", "compute_wt_t"}

\* the indices a generator seeded from the base filename yields first
FromFilename ==
    [id |-> "get_rng", seed |-> Digest(Basename(filename)), from |-> 0,
     count |-> BOOTSTRAP_SAMPLE_COUNT * Len(trajectories.val)]

\* C13: every resampling measurement draws its indices from a generator
\* newly seeded from the ensemble's filename and leaves the module-level
\* default generator alone, so the indices are fixed by the filename and
\* the data, whatever was measured or drawn before.
C13_SeededFromFilename ==
    [][res'.op \in Measurements
         => /\ default_rng' = default_rng
            /\ samples' \in {<<>>, <<FromFilename>>}
            /\ res'.err = "" => samples' = <<FromFilename>>]_vars

C13_Witness ==
    /\ res.op = "compute_t2E_samples"
    /\ res.err = ""
    /\ default_rng.pos > 0
    /\ samples = <<FromFilename>>

\* C16: compute_wt_t(flow_ensemble, operator) is the mean and error of
\* t * d(t^2 E)/dt of the energy density its operator selects, Eps for
\* "plaq" and Ecs for "sym", as compute_wt_samples gives for that operator.
C16_OperatorSelectsEnergy ==
    (res.op = "compute_wt_t" /\ res.err = "" /\ ValidOperator(res.arg))
    => res.val = BootstrapFinalizeNd(WtSamples(res.arg))

\* ======================================= exp_autocorrelation_fit properties
\* the autocorrelation values at lags 1..fit_range-1 and their moments
Lags == [l \in 1..((IF res.arg.fit_range < Len(Acf(series))
                    THEN res.arg.fit_range ELSE Len(Acf(series))) - 1) |->
            Acf(series)[l + 1]]
Noisy ==
    /\ Lags # <<>>
    /\ \A l \in DOMAIN Lags : Lags[l].d # 0
    /\ LET mu == MeanFrac(Lags)
           var == FracSub(SecondMoment(Lags), FracMul(mu, mu))
       IN  mu.n < 0 \/ FracLess(FracMul(mu, mu), var)

\* C14: exp_autocorrelation_fit returns (0, 0.5) in place of the fit when
\* the fitted tau < 1, the fit uncertainty > 10 * tau and the standard
\* deviation of the autocorrelation at lags 1..fit_range-1 exceeds their
\* mean, all three; otherwise it returns the fitted tau and uncertainty.
C14_OverridePolicy ==
    (res.op = "exp_autocorrelation_fit" /\ res.err = "")
    => LET tau == res.arg.tau_exp
           err == res.arg.tau_exp_error
       IN  IF /\ tau.n < tau.d
              /\ FracLess(Frac(10 * tau.n, tau.d), err)
              /\ Noisy
           THEN res.val = [value |-> Frac(0, 1), uncertainty |-> Frac(1, 2)]
           ELSE res.val = [value |-> tau, uncertainty |-> err]

\* all three conditions hold over two lags, and the fit is replaced
C14_Witness ==
    /\ res.op = "exp_autocorrelation_fit"
    /\ res.err = ""
    /\ Len(Lags) = 2
    /\ Noisy
    /\ res.val = [value |-> Frac(0, 1), uncertainty |-> Frac(1, 2)]

\* ========================================================= Flow properties
NonDecreasing(q) == \A i, j \in DOMAIN q : i <= j => q[i] <= q[j]
InStep(flow) ==
    /\ Len(flow.Eps) = Len(flow.times)
    /\ Len(flow.Ecs) = Len(flow.times)
    /\ Len(flow.Qs) = Len(flow.times)

\* C15: whatever Flow.append calls were made, accepted or rejected, each
\* flow's times are non-decreasing and times, Eps, Ecs and Qs have one
\* length; a step with t below the last time is rejected with an error
\* and changes none of the four, a step with t equal to it is accepted.
C15_FlowAppendKeepsOrder ==
    [][/\ \A f \in FlowIds :
            NonDecreasing(flows'[f].times) /\ InStep(flows'[f])
       /\ \A f \in FlowIds : \A s \in AnySteps(f) :
            FlowAppend(f, s)
            => LET before == flows[f].times
               IN  IF before # <<>> /\ s.t < before[Len(before)]
                   THEN res'.err = "ValueError" /\ flows' = flows
                   ELSE /\ res'.err = ""
                        /\ flows'[f].times = Append(before, s.t)
                        /\ flows'[f].Eps = Append(flows[f].Eps, s.Ep)
                        /\ flows'[f].Ecs = Append(flows[f].Ecs, s.Ec)
                        /\ flows'[f].Qs = Append(flows[f].Qs, s.Q)]_vars

\* one flow took a step with the time of its last, the other refused an
\* earlier one
C15_Witness ==
    /\ res.op = "Flow.append"
    /\ res.err = "ValueError"
    /\ res.arg = 1
    /\ flows[1].times = <<2>>
    /\ flows[2].times = <<1, 1>>
====
